---- MODULE Spec2Model ----
(***************************************************************************)
(* Multi-Agent-Chat: the GenerationController (src/state/generation.ts),   *)
(* the collaboration orchestrator runAgentCollaboration and the root       *)
(* component's Submit / Resend / Stop handlers (src/components/App.tsx),   *)
(* as they interleave on the browser's single-threaded event loop.         *)
(*                                                                         *)
(* Texts are modelled by their length in chunks: 0 is the empty string.    *)
(* AbortControllers and run tokens are numbered in order of creation;      *)
(* 0 stands for null.                                                       *)
(*                                                                         *)
(* Spec     the application: prompts, resends and stops against the        *)
(*          completions of search and provider calls                       *)
(* SpecRun  the application given one prompt, which may be stopped         *)
(* SpecCtl  the GenerationController under any sequence of calls           *)
(***************************************************************************)
EXTENDS Naturals, Integers, Sequences, FiniteSets, TLC

\* ------------------------------------------------------------------ bounds
MaxRuns == 2
MaxCtl == 5
MaxAgents == 2
MaxChunks == 1
MaxSynthChunks == 2
MaxResults == 3
MaxWords == 6
MaxEdits == 2
\* entries kept in the stored snapshot of the logs: 500 in logs.ts, scaled
SnapshotCap == 3
MaxLogs == SnapshotCap + 2
MaxItems == 3

\* ------------------------------------------------------- program constants
SearchAttempts == 3
BackoffMs == 300
DefaultAgents == 4
ProxyTries == 3
ProxyBackoffMs == 300
ProxyBackoffCap == 2000
JitterSpan == 200
DefaultMaxSources == 3
MaxSourcesFloor == 1
MaxSourcesCap == 10
TitleWords == 5

VARIABLES
  gc,          \* the GenerationController object (generationControllerRef.current)
  lastCall,    \* the controller call made last, with the state it found
  env,         \* what the platform and the settings fix: agent count,
               \* provider streaming capability, AbortSignal.any present
  ui,          \* the root component's React state
  msgs,        \* the messages of the active chat
  runs,        \* one record per invocation of runAgentCollaboration
  lastAct,     \* what the task executed last did, and on behalf of which run
  lastUser,    \* the last user event
  settings,    \* the agent settings: the root component's, the stored ones
               \* and the working copies of the SettingsModal
  logs,        \* the log store: the module's buffer and the stored snapshot
  proxy,       \* one request to the dev server's /api/generate or
               \* /api/generateStream endpoint
  groq,        \* one call of fetchGroqModels
  web,         \* the web search step: the stored source limit, the results of
               \* the search and the sources kept from them
  title        \* the end of a run in the root component: the final text and
               \* the title of the chat

\* ===================================================== GenerationController
\* generation.ts: controller = null, isGenerating = false, runToken = null
NewController ==
  [ controller   |-> 0,
    isGenerating |-> FALSE,
    runToken     |-> 0,
    aborted      |-> {},
    nextCtl      |-> 1,
    nextTok      |-> 1,
    lastEmit     |-> "none" ]

\* AbortController.abort() on the controller c
Abort(g, c) == [g EXCEPT !.aborted = @ \cup {c}]

start_NoAbort(g) ==
  [g EXCEPT !.controller   = g.nextCtl,
            !.nextCtl      = g.nextCtl + 1,
            !.isGenerating = TRUE,
            !.runToken     = g.nextTok,
            !.nextTok      = g.nextTok + 1,
            !.lastEmit     = "start"]

\* start(): abort the previous controller if any, make a new one, mint a
\* token.  The token returned is the new state's runToken.
start(g) ==
  LET a == IF g.controller # 0 THEN Abort(g, g.controller) ELSE g
  IN  [a EXCEPT !.controller   = g.nextCtl,
                !.nextCtl      = g.nextCtl + 1,
                !.isGenerating = TRUE,
                !.runToken     = g.nextTok,
                !.nextTok      = g.nextTok + 1,
                !.lastEmit     = "start"]

finish_NoTokenCheck(g, token) ==
  [g EXCEPT !.isGenerating = FALSE,
            !.lastEmit     = "finish",
            !.controller   = 0,
            !.runToken     = 0]

\* finish(token?): token = 0 stands for a call without a token
finish(g, token) ==
  IF token # 0 /\ g.runToken # 0 /\ token # g.runToken
  THEN g
  ELSE [g EXCEPT !.isGenerating = FALSE,
                 !.lastEmit     = "finish",
                 !.controller   = 0,
                 !.runToken     = 0]

stop_KeepsGenerating(g) ==
  LET a == IF g.controller # 0 THEN Abort(g, g.controller) ELSE g
  IN  [a EXCEPT !.lastEmit = "stop"]

stop_ClearsToken(g) ==
  LET a == IF g.controller # 0 THEN Abort(g, g.controller) ELSE g
  IN  [a EXCEPT !.isGenerating = FALSE, !.lastEmit = "stop", !.runToken = 0]

\* stop()
stop(g) ==
  LET a == IF g.controller # 0 THEN Abort(g, g.controller) ELSE g
  IN  [a EXCEPT !.isGenerating = FALSE, !.lastEmit = "stop"]

\* get signal(): creates a controller when there is none
signalG(g) ==
  IF g.controller = 0
  THEN [g EXCEPT !.controller = g.nextCtl, !.nextCtl = g.nextCtl + 1]
  ELSE g

\* the AbortController whose signal the getter returns
signalOf(g) == signalG(g).controller

\* the controller at the beginning of a call: nothing emitted yet
Quiet(g) == [g EXCEPT !.lastEmit = "none"]


Runs == 1 .. MaxRuns
Agents == 1 .. env.agentCount

\* ================================================= orchestrator, in pieces
\* A world is the state one task of the event loop reads and writes:
\* [gc, ui, msgs, runs, act].  Every piece below is the code between two
\* awaits of runAgentCollaboration, as a function from world to world.

IdleRun ==
  [ pc |-> "idle", sig |-> 0, callSig |-> 0, timer |-> FALSE, attempt |-> 0,
    agent |-> 0, acc |-> 0, initR |-> <<>>, refR |-> <<>>, finalId |-> FALSE,
    srcs |-> 0, waited |-> 0 ]

NoAct ==
  [ run |-> 0, timeout |-> FALSE, status |-> "none", prompt |-> 0, target |-> <<>>,
    notice |-> FALSE ]

\* the pc values at which a network call of the run is in flight
AwaitCall == {"search", "init", "refine", "synth", "s_init", "s_crit"}
StepCall == {"init", "refine", "synth"}

\* generationControllerRef.current.signal: the getter may create a controller
ReadSignal(w) == [w EXCEPT !.gc = signalG(w.gc)]
CurAborted(w) == signalOf(w.gc) \in w.gc.aborted
\* the signal captured at run start (const signal = ...)
OwnAborted(w, r) == w.runs[r].sig \in w.gc.aborted

SetCollab(w, c) == [w EXCEPT !.ui.collab = c]

\* setCurrentCollaborationState(prev => prev.map(a => a.id === id ? ... : a))
MapAgent(w, i, f, v) ==
  IF i \in 1 .. Len(w.ui.collab)
  THEN SetCollab(w, [w.ui.collab EXCEPT ![i][f] = v])
  ELSE w

\* setChats(prev => prev.map(c => c.id === chatId ? {...c, messages: [...c.messages, m]} : c))
AppendMsg(w, r, kind, text, traced) ==
  [w EXCEPT !.msgs = Append(w.msgs, [id |-> <<r, kind>>, role |-> "model",
                                      kind |-> kind, text |-> text,
                                      traced |-> traced,
                                      srcs |-> IF traced THEN w.runs[r].srcs ELSE 0])]

\* c.messages.map(m => m.id === idToUpdate ? {...m, parts: [{text}]} : m)
RewriteMsg(w, id, text) ==
  [w EXCEPT !.msgs = [k \in 1 .. Len(w.msgs) |->
       IF w.msgs[k].id = id THEN [w.msgs[k] EXCEPT !.text = text] ELSE w.msgs[k]]]

\* the final answer appended as a new message once the stream has ended
PatchMsg_Appends(w, r, id) == AppendMsg(w, r, "final", w.runs[r].acc, TRUE)

\* ... ? {...m, collaborationTrace, sources} : m
PatchMsg(w, r, id) ==
  [w EXCEPT !.msgs = [k \in 1 .. Len(w.msgs) |->
       IF w.msgs[k].id = id
       THEN [w.msgs[k] EXCEPT !.traced = TRUE, !.srcs = w.runs[r].srcs]
       ELSE w.msgs[k]]]

\* the invocation has returned: its locals are gone
Returned == [IdleRun EXCEPT !.pc = "done"]

\* finally { ... } of runAgentCollaboration; act.notice: pushNotice('success',
\* 'Processing done') and addLog('info', 'Run finished')
Finally(w, r) ==
  LET w1 == [w EXCEPT !.ui.isLoading = FALSE]
      w2 == IF ~OwnAborted(w1, r)
            THEN [SetCollab(w1, <<>>) EXCEPT !.ui.loadingMessage = ""]
            ELSE w1
  IN  [w2 EXCEPT !.ui.progressDone = 0,
                 !.ui.progressTotal = 0,
                 !.gc = finish(w2.gc, r),
                 !.ui.runStartTs = 0,
                 !.act.notice = TRUE,
                 !.runs[r] = Returned]

\* catch (error) { ... } at the outermost scope; abortErr: error.name is
\* 'AbortError'
OuterCatch(w, r, abortErr) ==
  IF abortErr \/ OwnAborted(w, r)
  THEN Finally(w, r)
  ELSE Finally(AppendMsg(w, r, "error", 1, FALSE), r)

SearchCatch_Swallows(w, r, abortErr) ==
  [w EXCEPT !.ui.isLoading = FALSE,
            !.ui.loadingMessage = "",
            !.ui.progressDone = 0,
            !.ui.progressTotal = 0,
            !.gc = finish(w.gc, r),
            !.runs[r] = Returned]

\* catch (e) { ... } of the web search step, which returns ''
SearchCatch(w, r, abortErr) ==
  LET w1 == IF abortErr \/ OwnAborted(w, r)
            THEN w
            ELSE AppendMsg(w, r, "searchError", 1, FALSE)
  IN  [w1 EXCEPT !.ui.isLoading = FALSE,
                 !.ui.loadingMessage = "",
                 !.ui.progressDone = 0,
                 !.ui.progressTotal = 0,
                 !.gc = finish(w1.gc, r),
                 !.runs[r] = Returned]

Backoff_Flat(i) == BackoffMs

\* await new Promise(r => setTimeout(r, 300 * i))
Backoff(i) == BackoffMs * i

\* fetch('/api/tools/search', { signal: generationControllerRef.current.signal })
IssueSearch(w, r, i) ==
  LET w1 == ReadSignal(w)
  IN  [w1 EXCEPT !.runs[r].pc = "search",
                 !.runs[r].attempt = i,
                 !.runs[r].callSig = w1.gc.controller]

\* the step call of an agent phase or of streamed synthesis: a step timer is
\* armed and the call gets AbortSignal.any([run signal, step signal]) when
\* the platform has it, the step signal alone otherwise
IssueStepCall(w, r, pc, i) ==
  LET w1 == IF env.hasAny THEN ReadSignal(w) ELSE w
  IN  [w1 EXCEPT !.runs[r].pc = pc,
                 !.runs[r].agent = i,
                 !.runs[r].acc = 0,
                 !.runs[r].timer = TRUE,
                 !.runs[r].callSig = IF env.hasAny THEN w1.gc.controller ELSE 0]

\* Step 3: synthesis
SynthTop(w, r) ==
  LET w1 == ReadSignal(w)
  IN  IF CurAborted(w1)
      THEN OuterCatch(w1, r, TRUE)
      ELSE LET w2 == [w1 EXCEPT !.ui.loadingMessage = "Synthesizing"]
           IN  IF env.streaming
               THEN IssueStepCall(w2, r, "synth", 0)
               ELSE LET w3 == ReadSignal(w2)
                    IN  [w3 EXCEPT !.runs[r].pc = "synth",
                                   !.runs[r].agent = 0,
                                   !.runs[r].acc = 0,
                                   !.runs[r].timer = FALSE,
                                   !.runs[r].callSig = w3.gc.controller]

\* the loop that goes from the initial phase straight to synthesis
LoopTop_SkipsRefine(w, r, phase, i) ==
  IF i > env.agentCount
  THEN SynthTop(w, r)
  ELSE LET w1 == ReadSignal(w)
       IN  IF CurAborted(w1)
           THEN OuterCatch(w1, r, TRUE)
           ELSE IssueStepCall([w1 EXCEPT !.ui.loadingMessage = "Writing"], r, phase, i)

\* the top of the loop body of Step 1 (phase "init") or Step 2 ("refine")
\* for agent i; past the last agent the next phase begins
RECURSIVE LoopTop(_, _, _, _)
LoopTop(w, r, phase, i) ==
  IF i > env.agentCount
  THEN IF phase = "init" THEN LoopTop(w, r, "refine", 1) ELSE SynthTop(w, r)
  ELSE LET w1 == ReadSignal(w)
       IN  IF CurAborted(w1)
           THEN OuterCatch(w1, r, TRUE)
           ELSE LET w2 == [w1 EXCEPT !.ui.loadingMessage =
                                IF phase = "init" THEN "Writing" ELSE "Refining"]
                    w3 == MapAgent(MapAgent(w2, i, "status",
                                IF phase = "init" THEN "writing" ELSE "refining"),
                                i, "response", 0)
                IN  IssueStepCall(w3, r, phase, i)

\* after the try/catch around an agent's call: status done, progress, record
AfterCall(w, r, text) ==
  LET i == w.runs[r].agent
      phase == w.runs[r].pc
      w1 == MapAgent(w, i, "status", "done")
      w2 == [w1 EXCEPT !.ui.progressDone = w1.ui.progressDone + 1,
                       !.runs[r].timer = FALSE,
                       !.runs[r].callSig = 0]
      w3 == IF phase = "init"
            THEN [w2 EXCEPT !.runs[r].initR[i] = text]
            ELSE [w2 EXCEPT !.runs[r].refR[i] = text]
  IN  LoopTop(w3, r, phase, i + 1)

InnerCatch_TimeoutAborts(w, r, abortErr) ==
  LET w1 == ReadSignal([w EXCEPT !.runs[r].timer = FALSE])
  IN  IF CurAborted(w1) \/ w1.act.timeout
      THEN OuterCatch(w1, r, abortErr)
      ELSE AfterCall(MapAgent(w1, w1.runs[r].agent, "response", 0), r, 0)

\* catch (e) { ... } around an agent's call: a run-level abort is rethrown,
\* anything else degrades the agent's text to ''
InnerCatch(w, r, abortErr) ==
  LET w1 == ReadSignal([w EXCEPT !.runs[r].timer = FALSE])
  IN  IF CurAborted(w1)
      THEN OuterCatch(w1, r, abortErr)
      ELSE AfterCall(MapAgent(w1, w1.runs[r].agent, "response", 0), r, 0)

\* from "Agents are collaborating..." to the first provider call
BeginAgents(w, r) ==
  LET w1 == [w EXCEPT !.ui.loadingMessage = "Collaborating"]
      w2 == SetCollab(w1, [i \in Agents |-> [status |-> "initializing", response |-> 0]])
      w3 == [w2 EXCEPT !.runs[r].initR = [i \in Agents |-> 0],
                       !.runs[r].refR = [i \in Agents |-> 0]]
  IN  IF env.agentCount = 1
      THEN LET w4 == [w3 EXCEPT !.ui.loadingMessage = "WritingInitial"]
               w5 == MapAgent(MapAgent(w4, 1, "status", "writing"), 1, "response", 0)
           IN  [w5 EXCEPT !.runs[r].pc = "s_init",
                          !.runs[r].agent = 1,
                          !.runs[r].callSig = w5.runs[r].sig]
      ELSE LoopTop(w3, r, "init", 1)

\* progress steps of a run
ProgressTotal(inet, n) ==
  (IF inet THEN 1 ELSE 0) + (IF n = 1 THEN 3 ELSE n + n + 1)

\* runAgentCollaboration from its first line to its first await
Begin(w, inet) ==
  LET r  == w.gc.nextTok
      w1 == [w EXCEPT !.gc = start(w.gc)]
      w2 == ReadSignal([w1 EXCEPT !.ui.runStartTs = r])
      w3 == [w2 EXCEPT !.runs[r] = [IdleRun EXCEPT !.sig = w2.gc.controller],
                       !.ui.isLoading = TRUE,
                       !.ui.showCollaboration = TRUE,
                       !.ui.loadingMessage = "",
                       !.ui.progressDone = 0,
                       !.ui.progressTotal = ProgressTotal(inet, env.agentCount)]
  IN  IF inet
      THEN IssueSearch([w3 EXCEPT !.ui.loadingMessage = "Searching"], r, 1)
      ELSE BeginAgents(w3, r)

\* =========================================================== agent settings
\* Array(n).fill(v)
Fill(n, v) == [i \in 1 .. n |-> v]

\* a[i] || d : the entry when there is one and it is truthy, else the default
OrElse(a, i, d) == IF i <= Len(a) /\ a[i] # "" THEN a[i] ELSE d

\* prev.map((x, idx) => idx === i ? v : x)
SetAt(a, i, v) == [k \in 1 .. Len(a) |-> IF k = i THEN v ELSE a[k]]

\* The settings when the stored agent count is n: the root component has
\* loaded n instructions and n names from storage (4 of each when nothing is
\* stored), no per-agent provider or model is stored yet and the modal is
\* closed.
SettingsAt(n) ==
  [ agentCount          |-> n,
    agentInstructions   |-> Fill(n, "initial"),
    agentNames          |-> Fill(n, "Agent N"),
    lsProviderGlobal    |-> "gemini",
    lsModelGlobal       |-> "",
    lsProviderPerAgent  |-> <<>>,
    lsModelPerAgent     |-> <<>>,
    isOpen              |-> FALSE,
    currentInstructions |-> <<>>,
    currentNames        |-> <<>>,
    globalProvider      |-> "gemini",
    globalModel         |-> "",
    perAgentProviders   |-> <<>>,
    perAgentModels      |-> <<>>,
    edits               |-> 0 ]

\* the effect that runs when the modal opens
OpenEffect(s) ==
  LET count == IF Len(s.agentInstructions) # 0 THEN Len(s.agentInstructions)
               ELSE DefaultAgents
      gp == s.lsProviderGlobal
      gm == s.lsModelGlobal
  IN [s EXCEPT
        !.isOpen = TRUE,
        !.currentInstructions = s.agentInstructions,
        !.currentNames = IF Len(s.agentNames) # 0 THEN s.agentNames
                         ELSE Fill(DefaultAgents, "Agent N"),
        !.globalProvider = gp,
        !.perAgentProviders = [i \in 1 .. count |-> OrElse(s.lsProviderPerAgent, i, gp)],
        !.globalModel = gm,
        !.perAgentModels = [i \in 1 .. count |-> OrElse(s.lsModelPerAgent, i, gm)]]

handleInstructionChange(s, index, value) ==
  [s EXCEPT !.currentInstructions = SetAt(s.currentInstructions, index, value)]

\* Reset Instructions: Array(4).fill(INITIAL_SYSTEM_INSTRUCTION)
handleReset(s) == [s EXCEPT !.currentInstructions = Fill(DefaultAgents, "initial")]

\* the root component takes the saved instructions and names; the agent count
\* is the number of instructions (the modal's `count`)
handleSaveAgentSettings(s, newInstructions, newNames) ==
  [s EXCEPT !.agentInstructions = newInstructions,
            !.agentNames = newNames,
            !.agentCount = Len(newInstructions)]

\* (n && n.trim()) ? n.trim() : `Agent ${i+1}`
SavedName(n) == IF n = "" THEN "Agent N" ELSE n

handleSave(s) ==
  LET s1 == handleSaveAgentSettings(s, s.currentInstructions,
              [i \in 1 .. Len(s.currentNames) |-> SavedName(s.currentNames[i])])
  IN [s1 EXCEPT !.lsProviderGlobal = s.globalProvider,
                !.lsProviderPerAgent = s.perAgentProviders,
                !.lsModelGlobal = s.globalModel,
                !.lsModelPerAgent = s.perAgentModels,
                !.isOpen = FALSE]

\* ================================================================ log store
\* a.slice(-k)
SliceLast(a, k) == IF Len(a) <= k THEN a ELSE SubSeq(a, Len(a) - k + 1, Len(a))

\* a.slice(0, k)
SliceFirst(a, k) == IF Len(a) <= k THEN a ELSE SubSeq(a, 1, k)

\* logs.ts after the module is loaded on an empty storage; calls counts the
\* addLog calls, base those before the last clearLogs, and stored tells
\* whether the last access to the storage succeeded
LogsEmpty == [buffer |-> <<>>, snapshot |-> <<>>, calls |-> 0, base |-> 0, stored |-> TRUE]

\* addLog that mirrors the oldest entries
addLog_KeepsOldest(l, level, storageOk) ==
  LET pushed == Append(l.buffer, [ts |-> l.calls + 1, level |-> level])
  IN [l EXCEPT !.buffer = pushed,
               !.snapshot = IF storageOk THEN SliceFirst(pushed, SnapshotCap) ELSE @,
               !.calls = @ + 1,
               !.stored = storageOk]

\* addLog(level, message); setItem throws when storageOk is false
addLog(l, level, storageOk) ==
  LET pushed == Append(l.buffer, [ts |-> l.calls + 1, level |-> level])
  IN [l EXCEPT !.buffer = pushed,
               !.snapshot = IF storageOk THEN SliceLast(pushed, SnapshotCap) ELSE @,
               !.calls = @ + 1,
               !.stored = storageOk]

getLogs(l) == l.buffer

\* clearLogs(); removeItem throws when storageOk is false
clearLogs(l, storageOk) ==
  [l EXCEPT !.buffer = <<>>,
            !.snapshot = IF storageOk THEN <<>> ELSE @,
            !.base = l.calls,
            !.stored = storageOk]

\* ======================================================== generation proxy
\* the Retry-After header of an upstream response: absent, a number of
\* seconds, an HTTP date (v: its distance from now in ms) or neither
RetryAfterHeaders ==
  { [kind |-> "none", v |-> 0], [kind |-> "seconds", v |-> 0],
    [kind |-> "seconds", v |-> 1], [kind |-> "date", v |-> 0 - 1000],
    [kind |-> "date", v |-> 1500], [kind |-> "garbage", v |-> 0] }

parseRetryAfterMs(h) ==
  CASE h.kind = "none"    -> 0
    [] h.kind = "seconds" -> h.v * 1000
    [] h.kind = "date"    -> IF h.v > 0 THEN h.v ELSE 0
    [] OTHER              -> 0

Min(a, b) == IF a <= b THEN a ELSE b

\* Math.min(2000, 300 * Math.pow(2, attempt - 1))
BackoffBase(attempt) == Min(ProxyBackoffCap, ProxyBackoffMs * 2 ^ (attempt - 1))

\* const waitMs = ra || (base + jitter)
WaitMs(h, attempt, jitter) ==
  LET ra == parseRetryAfterMs(h)
  IN IF ra # 0 THEN ra ELSE BackoffBase(attempt) + jitter

\* no request received
ProxyIdle ==
  [ endpoint |-> "none", provider |-> "none", pc |-> "done", attempt |-> 0,
    calls |-> 0, status |-> 0, header |-> [kind |-> "none", v |-> 0],
    jitter |-> 0, waitMs |-> 0, wroteAnyChunk |-> FALSE, ended |-> FALSE,
    aborted |-> FALSE, idleTimer |-> "none" ]

\* the handler up to its first upstream call; without a key it answers 500
Accept(endpoint, provider, hasKey) ==
  LET p == [ProxyIdle EXCEPT !.endpoint = endpoint, !.provider = provider,
              !.idleTimer = IF endpoint = "generateStream" THEN "armed" ELSE "none"]
  IN IF hasKey THEN [p EXCEPT !.pc = "fetch", !.attempt = 1, !.calls = 1]
     ELSE [p EXCEPT !.ended = TRUE]

\* res.end() of a handler that returns
EndResponse(p) == [p EXCEPT !.pc = "done", !.ended = TRUE]

\* fetchWithRetry after make() resolved with a response
AfterMake(p, status, header, jitter) ==
  LET q == [p EXCEPT !.status = status, !.header = header]
  IN IF status # 429 /\ status # 503
     THEN IF status = 200 THEN [q EXCEPT !.pc = "body"] ELSE EndResponse(q)
     ELSE [q EXCEPT !.pc = "wait", !.jitter = jitter,
                    !.waitMs = WaitMs(header, p.attempt, jitter)]

\* fetchWithRetry after its wait: the next attempt, or the last response
AfterWait(p) ==
  IF p.attempt < ProxyTries
  THEN [p EXCEPT !.pc = "fetch", !.attempt = @ + 1, !.calls = @ + 1]
  ELSE EndResponse(p)

\* the idle watchdog that ends the response and leaves the upstream alone
idleTimer_EndsOnly(p) ==
  IF ~p.wroteAnyChunk /\ ~p.aborted
  THEN [p EXCEPT !.idleTimer = "fired", !.ended = TRUE]
  ELSE [p EXCEPT !.idleTimer = "fired"]

\* the callback of idleTimer
idleTimer(p) ==
  IF ~p.wroteAnyChunk /\ ~p.aborted
  THEN [p EXCEPT !.idleTimer = "fired", !.ended = TRUE, !.aborted = TRUE]
  ELSE [p EXCEPT !.idleTimer = "fired"]

\* ============================================================ model listing
\* a model id is a number here, 0 standing for an entry without an id;
\* localeCompare is the order of the numbers
RECURSIVE SortIds(_)
SortIds(ids) ==
  IF ids = <<>> THEN <<>>
  ELSE LET rest == SortIds(Tail(ids))
           below == SelectSeq(rest, LAMBDA x : x <= Head(ids))
           above == SelectSeq(rest, LAMBDA x : x > Head(ids))
       IN below \o <<Head(ids)>> \o above

\* items.map(id => {id, label: id}).filter(m => !!m.id).sort(...)
GroqOptions(items) == SortIds(SelectSeq(items, LAMBDA x : x # 0))

\* no call made; storedKey is the key kept in the browser's storage
GroqIdle(storedKey) ==
  [pc |-> "idle", storedKey |-> storedKey, key |-> "", outcome |-> "none",
   items |-> <<>>, result |-> <<>>]

\* fetchGroqModels(apiKey) up to its fetch
fetchGroqModels(g, apiKey) ==
  LET key == IF apiKey # "" THEN apiKey ELSE g.storedKey
      g1  == [GroqIdle(g.storedKey) EXCEPT !.key = key]
  IN IF key = "" THEN [g1 EXCEPT !.pc = "returned"] ELSE [g1 EXCEPT !.pc = "fetch"]

\* fetchGroqModels once fetch has settled: with a response of some status and
\* items, or with a rejection
AfterGroqFetch(g, outcome, items) ==
  LET g1 == [g EXCEPT !.outcome = outcome, !.items = items]
  IN CASE outcome = "rejects" -> [g1 EXCEPT !.pc = "threw"]
       [] outcome = "non2xx"  -> [g1 EXCEPT !.pc = "returned"]
       [] OTHER               -> [g1 EXCEPT !.pc = "returned",
                                            !.result = GroqOptions(items)]

\* the state of the parts of the program that no generation run touches
\* ========================================================= web sources
\* localStorage's value under 'tools-max-sources': absent, a text parseInt
\* makes NaN of, or the digits of n
StoredAbsent == [kind |-> "absent", n |-> 0]
StoredText == [kind |-> "text", n |-> 0]
StoredInt(n) == [kind |-> "int", n |-> n]

Max(a, b) == IF a >= b THEN a ELSE b

\* getMaxWebSources()
getMaxWebSources(stored) ==
  IF stored.kind = "int"
  THEN Min(Max(MaxSourcesFloor, stored.n), MaxSourcesCap)
  ELSE DefaultMaxSources

\* a result is its raw_content: 0 for a result without content
HasContent(s) == s # 0

\* (searchData.results || []).slice(0, maxSources).map(...).filter(s => s.content)
KeptSources(results, maxSources) ==
  SelectSeq(SubSeq(results, 1, Min(maxSources, Len(results))), HasContent)

WebIdle == [stored |-> StoredAbsent, results |-> <<>>, sources |-> <<>>, searched |-> FALSE]

\* ========================================================== chat title
\* A title text is a sequence of tokens separated by blanks: 0 a token made
\* of markup characters only, any other number a word.
NewChatTitle == <<"New", "Chat">>

IsWord(t) == t # 0

\* sanitizeTitle(t): markup characters go, blanks collapse, nothing left is
\* 'New Chat', at most five words stay
sanitizeTitle(t) ==
  LET words == SelectSeq(t, IsWord)
  IN  IF words = <<>> THEN NewChatTitle
      ELSE SubSeq(words, 1, Min(TitleWords, Len(words)))

\* handleSubmit with no active chat: a chat titled "New Chat", isNewChat true
TitleIdle(isNewChat, streamed) ==
  [ pc |-> "synth", isNewChat |-> isNewChat, streamed |-> streamed, acc |-> 0,
    finalText |-> 0, answered |-> FALSE, title |-> NewChatTitle, calls |-> 0 ]

\* from the end of synthesis to the title call: the final message, then
\* if (isNewChat) { ... await ai.models.generateContent(...) }
AfterSynthesis(x, text) ==
  LET x1 == [x EXCEPT !.finalText = text, !.answered = TRUE]
  IN  IF x.isNewChat
      THEN [x1 EXCEPT !.pc = "title", !.calls = x.calls + 1]
      ELSE [x1 EXCEPT !.pc = "done"]

\* the title call settles: setChats(... title: newTitle) or the catch
AfterTitleCall(x, ok, raw) ==
  IF ok THEN [x EXCEPT !.pc = "done", !.title = sanitizeTitle(raw)]
  ELSE [x EXCEPT !.pc = "done"]

sideVars == <<settings, logs, proxy, groq, web, title>>
vars == <<gc, lastCall, env, ui, msgs, runs, lastAct, lastUser, sideVars>>
appVars == <<env, ui, msgs, runs, lastAct, lastUser, sideVars>>
mainVars == <<gc, lastCall, env, ui, msgs, runs, lastAct, lastUser>>

World == [gc |-> Quiet(gc), ui |-> ui, msgs |-> msgs, runs |-> runs, act |-> NoAct]


\* the root component after its first render, on a platform e
AppStart(e) ==
  /\ gc = NewController
  /\ lastCall = [op |-> "none", arg |-> 0, pre |-> NewController, prev |-> "none"]
  /\ env = e
  /\ ui = [isLoading |-> FALSE, loadingMessage |-> "", progressDone |-> 0,
           progressTotal |-> 0, runStartTs |-> 0, collab |-> <<>>,
           showCollaboration |-> FALSE, chatOpen |-> FALSE]
  /\ msgs = <<>>
  /\ runs = [r \in Runs |-> IdleRun]
  /\ lastAct = NoAct
  /\ lastUser = "none"

Init ==
  /\ \E e \in [agentCount : 1 .. MaxAgents, streaming : BOOLEAN, hasAny : BOOLEAN] :
       AppStart(e)
  /\ settings = SettingsAt(DefaultAgents)
  /\ logs = LogsEmpty
  /\ proxy = ProxyIdle
  /\ groq = GroqIdle("")
  /\ web = WebIdle
  /\ title = TitleIdle(FALSE, FALSE)

Called(op, arg) ==
  lastCall' = [op |-> op, arg |-> arg, pre |-> Quiet(gc), prev |-> lastCall.op]


\* ======================================================= the event loop
\* a newer invocation of runAgentCollaboration exists
Superseded(r) == r + 1 < gc.nextTok

\* a call of the run is in flight on a signal that is aborted
Rejected(r) ==
  /\ runs[r].pc \in AwaitCall
  /\ runs[r].callSig # 0
  /\ runs[r].callSig \in gc.aborted

\* How far a superseded run is followed: through the rejections of its
\* aborted calls.  Once it waits on something else (an answer, a timer) the
\* exploration leaves it there; every behaviour explored is a prefix of a
\* behaviour of the program.
Unfollowed == [IdleRun EXCEPT !.pc = "stale"]

\* A task starts from the current state and commits what it computed.
TaskOf(r, kind) ==
  [World EXCEPT !.act.run = r, !.act.timeout = (kind = "timeout"),
                !.runs = [q \in Runs |->
                   IF q # r /\ Superseded(q) /\ ~Rejected(q)
                      /\ runs[q].pc \notin {"idle", "done"}
                   THEN Unfollowed ELSE runs[q]]]

Commit(w) ==
  /\ gc' = w.gc
  /\ ui' = w.ui
  /\ msgs' = w.msgs
  /\ runs' = w.runs
  /\ lastAct' = w.act
  /\ UNCHANGED <<env, lastCall, sideVars>>

\* A call in flight whose signal is aborted rejects in a microtask: it is
\* handled before any other task begins.
AbortPending == \E r \in Runs : Rejected(r)

UserMsg(r, text) ==
  [id |-> <<r, "user">>, role |-> "user", kind |-> "user", text |-> text,
   traced |-> FALSE, srcs |-> 0]

\* handleSubmit; internetEnabled is the state of the Internet toggle, which
\* the user sets at will and only the start of a run reads
Submit ==
  /\ ~AbortPending
  /\ ~ui.isLoading
  /\ gc.nextTok <= MaxRuns
  /\ \E internetEnabled \in BOOLEAN :
       LET r  == gc.nextTok
           w0 == TaskOf(r, "submit")
           w1 == [w0 EXCEPT !.msgs = Append(w0.msgs, UserMsg(r, 1)),
                            !.ui.chatOpen = TRUE]
       IN  Commit([Begin(w1, internetEnabled) EXCEPT !.act.prompt = 1])
  /\ lastUser' = "submit"

\* messages.findIndex(m => m.id === messageId), counted from 1; 0 for -1
FindIndex(messages, messageId) ==
  IF \E j \in 1 .. Len(messages) : messages[j].id = messageId
  THEN CHOOSE j \in 1 .. Len(messages) :
         /\ messages[j].id = messageId
         /\ \A i \in 1 .. (j - 1) : messages[i].id # messageId
  ELSE 0

\* the edited message list that is not cut after the message
ResentMessages_KeepsTail(messages, messageId, newText) ==
  [j \in 1 .. Len(messages) |->
     IF messages[j].id = messageId
     THEN [messages[j] EXCEPT !.text = newText] ELSE messages[j]]

\* the chat's messages after the state update of handleResendMessage
ResentMessages(messages, messageId, newText) ==
  SubSeq(ResentMessages_KeepsTail(messages, messageId, newText),
         1, FindIndex(messages, messageId))

\* handleResendMessage(messageId, newText); the edit control is rendered on
\* the user's messages
Resend ==
  /\ ~AbortPending
  /\ ui.chatOpen
  /\ gc.nextTok <= MaxRuns
  /\ \E k \in 1 .. Len(msgs), internetEnabled \in BOOLEAN :
       /\ msgs[k].role = "user"
       /\ LET r  == gc.nextTok
              w0 == TaskOf(r, "resend")
              w1 == [w0 EXCEPT !.msgs = ResentMessages(msgs, msgs[k].id, 2)]
              w2 == Begin(w1, internetEnabled)
          IN  Commit([w2 EXCEPT !.act.prompt = 2, !.act.target = msgs[k].id])
  /\ lastUser' = "resend"

\* handleStopGeneration; the Stop controls are rendered only while isLoading
Stop ==
  /\ ~AbortPending
  /\ ui.isLoading
  /\ LET w0 == TaskOf(0, "stop")
     IN  Commit([w0 EXCEPT !.gc = stop(w0.gc),
                           !.ui.isLoading = FALSE,
                           !.ui.loadingMessage =
                              IF w0.ui.loadingMessage # ""
                              THEN w0.ui.loadingMessage ELSE "Stopped"])
  /\ lastUser' = "stop"

\* what an attempt can come to: a 2xx with a JSON body, a 2xx whose body
\* response.json() rejects, a 5xx, another non-2xx status, a transport failure
SearchOutcomes == {"ok", "badbody", "5xx", "4xx", "neterr"}

\* ---- the search endpoint answers attempt i of fetchWithRetry
SearchRespond(r) ==
  /\ ~AbortPending
  /\ ~Superseded(r)
  /\ runs[r].pc = "search"
  /\ \E status \in SearchOutcomes, n \in 0 .. 1 :
       /\ (status # "ok" => n = 0)
       /\ LET w0 == [TaskOf(r, "search") EXCEPT !.act.status = status]
          IN  Commit(
                IF status = "ok"
                THEN BeginAgents([w0 EXCEPT !.runs[r].srcs = n,
                                            !.runs[r].callSig = 0,
                                            !.ui.progressDone = w0.ui.progressDone + 1], r)
                ELSE IF status = "5xx" /\ runs[r].attempt < SearchAttempts
                THEN [w0 EXCEPT !.runs[r].pc = "backoff", !.runs[r].callSig = 0]
                ELSE SearchCatch(w0, r, FALSE))
  /\ UNCHANGED lastUser

\* the backoff timer of fetchWithRetry fires: next attempt
BackoffDone(r) ==
  /\ ~AbortPending
  /\ ~Superseded(r)
  /\ runs[r].pc = "backoff"
  /\ LET w0 == TaskOf(r, "backoff")
     IN  Commit(IssueSearch([w0 EXCEPT !.runs[r].waited = @ + Backoff(runs[r].attempt)],
                            r, runs[r].attempt + 1))
  /\ UNCHANGED lastUser

\* ---- a chunk of a streamed call arrives
Chunk(r) ==
  /\ ~AbortPending
  /\ ~Superseded(r)
  /\ env.streaming
  /\ runs[r].pc \in StepCall
  /\ runs[r].acc < (IF runs[r].pc = "synth" THEN MaxSynthChunks ELSE MaxChunks)
  /\ LET w0 == ReadSignal(TaskOf(r, "chunk"))
         n  == runs[r].acc + 1
         w1 == [w0 EXCEPT !.runs[r].timer = FALSE, !.runs[r].acc = n]
     IN  Commit(
           IF runs[r].pc = "synth"
           THEN IF CurAborted(w0) THEN OuterCatch(w0, r, TRUE)
                ELSE IF ~runs[r].finalId
                THEN [AppendMsg(w1, r, "final", n, FALSE) EXCEPT !.runs[r].finalId = TRUE]
                ELSE RewriteMsg(w1, <<r, "final">>, n)
           ELSE IF CurAborted(w0) THEN InnerCatch(w0, r, TRUE)
                ELSE MapAgent(w1, runs[r].agent, "response", n))
  /\ UNCHANGED lastUser

\* ---- a streamed call ends
StreamEnd(r) ==
  /\ ~AbortPending
  /\ ~Superseded(r)
  /\ env.streaming
  /\ runs[r].pc \in StepCall
  /\ LET w0 == [TaskOf(r, "end") EXCEPT !.act.status = "end"]
     IN  Commit(
           IF runs[r].pc = "synth"
           THEN LET w1 == IF runs[r].finalId THEN PatchMsg(w0, r, <<r, "final">>) ELSE w0
                IN  Finally([w1 EXCEPT !.ui.progressDone = w1.ui.progressDone + 1], r)
           ELSE AfterCall(w0, r, runs[r].acc))
  /\ UNCHANGED lastUser

\* ---- generateText resolves with a text of length t
TextResolve(r) ==
  /\ ~AbortPending
  /\ ~Superseded(r)
  /\ \/ runs[r].pc \in StepCall /\ ~env.streaming
     \/ runs[r].pc \in {"s_init", "s_crit"}
  /\ \E t \in 0 .. MaxChunks :
       LET w0 == TaskOf(r, "resolve")
           pc == runs[r].pc
       IN  Commit(
         CASE pc = "s_init" ->
                LET w1 == MapAgent(MapAgent(w0, 1, "response", t), 1, "status", "done")
                    w2 == [w1 EXCEPT !.ui.progressDone = w1.ui.progressDone + 1,
                                     !.ui.loadingMessage = "Critique",
                                     !.runs[r].initR[1] = t]
                    w3 == MapAgent(w2, 1, "status", "refining")
                IN  [w3 EXCEPT !.runs[r].pc = "s_crit",
                               !.runs[r].callSig = w3.runs[r].sig]
           [] pc = "s_crit" ->
                LET w1 == [w0 EXCEPT !.ui.progressDone = w0.ui.progressDone + 2,
                                     !.ui.loadingMessage = "Refined",
                                     !.runs[r].refR[1] = t]
                    w2 == MapAgent(MapAgent(w1, 1, "response", t), 1, "status", "done")
                IN  Finally(AppendMsg(w2, r, "final", t, TRUE), r)
           [] pc = "synth" ->
                LET w1 == ReadSignal(w0)
                IN  IF CurAborted(w1) THEN OuterCatch(w1, r, TRUE)
                    ELSE Finally(AppendMsg(
                           [w1 EXCEPT !.ui.progressDone = w1.ui.progressDone + 1],
                           r, "final", t, TRUE), r)
           [] OTHER ->
                LET w1 == ReadSignal(w0)
                IN  IF CurAborted(w1) THEN InnerCatch(w1, r, TRUE)
                    ELSE AfterCall(MapAgent([w1 EXCEPT !.runs[r].timer = FALSE],
                                            runs[r].agent, "response", t), r, t))
  /\ UNCHANGED lastUser

\* ---- a provider call fails: transport failure or a non-2xx from the proxy
CallFails(r) ==
  /\ ~AbortPending
  /\ ~Superseded(r)
  /\ runs[r].pc \in AwaitCall \ {"search"}
  /\ LET w0 == [TaskOf(r, "fail") EXCEPT !.act.status = "callfail"]
     IN  Commit(IF runs[r].pc \in {"init", "refine"}
                THEN InnerCatch(w0, r, FALSE)
                ELSE OuterCatch(w0, r, FALSE))
  /\ UNCHANGED lastUser

\* ---- the step timer (25 s, synthesis 30 s) fires before the first chunk
\* or the resolution: stepController.abort() rejects the call with AbortError
StepTimeout(r) ==
  /\ ~AbortPending
  /\ ~Superseded(r)
  /\ runs[r].pc \in StepCall
  /\ runs[r].timer
  /\ LET w0 == TaskOf(r, "timeout")
     IN  Commit(IF runs[r].pc = "synth"
                THEN OuterCatch(w0, r, TRUE)
                ELSE InnerCatch(w0, r, TRUE))
  /\ UNCHANGED lastUser

\* ---- the call in flight was given a signal that is now aborted: AbortError
AbortDeliver(r) ==
  /\ Rejected(r)
  /\ LET w0 == TaskOf(r, "abort")
     IN  Commit(CASE runs[r].pc = "search" -> SearchCatch(w0, r, TRUE)
                  [] runs[r].pc \in {"init", "refine"} -> InnerCatch(w0, r, TRUE)
                  [] OTHER -> OuterCatch(w0, r, TRUE))
  /\ UNCHANGED lastUser

Next ==
  \/ Submit
  \/ Resend
  \/ Stop
  \/ \E r \in Runs : SearchRespond(r)
  \/ \E r \in Runs : BackoffDone(r)
  \/ \E r \in Runs : Chunk(r)
  \/ \E r \in Runs : StreamEnd(r)
  \/ \E r \in Runs : TextResolve(r)
  \/ \E r \in Runs : CallFails(r)
  \/ \E r \in Runs : StepTimeout(r)
  \/ \E r \in Runs : AbortDeliver(r)

Spec == Init /\ [][Next]_vars

\* ----------------------------------------- the controller under any caller
CtlStart ==
  /\ gc.nextTok <= MaxRuns
  /\ gc.nextCtl <= MaxCtl
  /\ gc' = start(Quiet(gc))
  /\ Called("start", 0)
  /\ UNCHANGED appVars

CtlFinish ==
  \E t \in 0 .. (gc.nextTok - 1) :
    /\ gc' = finish(Quiet(gc), t)
    /\ Called("finish", t)
    /\ UNCHANGED appVars

CtlStop ==
  /\ gc' = stop(Quiet(gc))
  /\ Called("stop", 0)
  /\ UNCHANGED appVars

CtlReadSignal ==
  /\ gc.nextCtl <= MaxCtl
  /\ gc' = signalG(Quiet(gc))
  /\ Called("signal", 0)
  /\ UNCHANGED appVars

CtlNext == CtlStart \/ CtlFinish \/ CtlStop \/ CtlReadSignal

SpecCtl == Init /\ [][CtlNext]_vars

\* ------------------------------------------- one prompt, possibly stopped
\* the user submits the first prompt of the session and nothing after it
SubmitFirst == gc.nextTok = 1 /\ Submit

NextRun ==
  \/ SubmitFirst
  \/ Stop
  \/ \E r \in Runs : SearchRespond(r)
  \/ \E r \in Runs : BackoffDone(r)
  \/ \E r \in Runs : Chunk(r)
  \/ \E r \in Runs : StreamEnd(r)
  \/ \E r \in Runs : TextResolve(r)
  \/ \E r \in Runs : CallFails(r)
  \/ \E r \in Runs : StepTimeout(r)
  \/ \E r \in Runs : AbortDeliver(r)

SpecRun == Init /\ [][NextRun]_vars

\* ------------------------------------------------------ the settings modal
Providers == {"gemini", "groq"}
ModelIds == {"", "m1"}
EnvIdle == [agentCount |-> 1, streaming |-> FALSE, hasAny |-> FALSE]

\* a step outside any generation run
SideStep(s, l, p, g) ==
  settings' = s /\ logs' = l /\ proxy' = p /\ groq' = g /\ UNCHANGED <<mainVars, web, title>>

SettingsStep(s) == SideStep(s, logs, proxy, groq)

\* an edit in the modal, while the session's edits last
Edited(s) == [s EXCEPT !.edits = settings.edits + 1]

CanEdit == settings.isOpen /\ settings.edits < MaxEdits

SettingsOpen == ~settings.isOpen /\ SettingsStep(OpenEffect(settings))

SettingsCancel == settings.isOpen /\ SettingsStep([settings EXCEPT !.isOpen = FALSE])

EditInstruction ==
  /\ CanEdit
  /\ \E index \in 1 .. Len(settings.currentInstructions) :
       SettingsStep(Edited(handleInstructionChange(settings, index, "edited")))

\* the name inputs are rendered one per instruction
EditName ==
  /\ CanEdit
  /\ \E index \in 1 .. Len(settings.currentInstructions), n \in {"", "custom"} :
       SettingsStep(Edited([settings EXCEPT
          !.currentNames = SetAt(settings.currentNames, index, n)]))

ChangeGlobalProvider ==
  /\ CanEdit
  /\ \E val \in Providers :
       SettingsStep(Edited([settings EXCEPT
          !.globalProvider = val,
          !.perAgentProviders = Fill(Len(settings.perAgentProviders), val),
          !.globalModel = "",
          !.perAgentModels = Fill(Len(settings.perAgentModels), "")]))

ChangeGlobalModel ==
  /\ CanEdit
  /\ \E val \in ModelIds \ {""} :
       SettingsStep(Edited([settings EXCEPT !.globalModel = val]))

ApplyGlobal ==
  /\ settings.isOpen
  /\ SettingsStep([settings EXCEPT
        !.perAgentProviders = Fill(Len(settings.perAgentProviders), settings.globalProvider),
        !.perAgentModels = Fill(Len(settings.perAgentModels), settings.globalModel)])

EditAgentProvider ==
  /\ CanEdit
  /\ \E i \in 1 .. Len(settings.perAgentProviders), v \in Providers :
       SettingsStep(Edited([settings EXCEPT
          !.perAgentProviders = SetAt(settings.perAgentProviders, i, v),
          !.perAgentModels = SetAt(settings.perAgentModels, i, "")]))

EditAgentModel ==
  /\ CanEdit
  /\ \E i \in 1 .. Len(settings.perAgentProviders), val \in ModelIds \ {""} :
       SettingsStep(Edited([settings EXCEPT
          !.perAgentModels = SetAt(settings.perAgentModels, i, val)]))

ResetInstructions == settings.isOpen /\ SettingsStep(handleReset(settings))

SaveChanges == settings.isOpen /\ SettingsStep(handleSave(settings))

NextSettings ==
  \/ SettingsOpen
  \/ SettingsCancel
  \/ EditInstruction
  \/ EditName
  \/ ChangeGlobalProvider
  \/ ChangeGlobalModel
  \/ ApplyGlobal
  \/ EditAgentProvider
  \/ EditAgentModel
  \/ ResetInstructions
  \/ SaveChanges

\* the agent count is a stored setting
InitSettings ==
  /\ AppStart(EnvIdle)
  /\ \E n \in (1 .. MaxAgents) \cup {DefaultAgents} : settings = SettingsAt(n)
  /\ logs = LogsEmpty
  /\ proxy = ProxyIdle
  /\ groq = GroqIdle("")
  /\ web = WebIdle
  /\ title = TitleIdle(FALSE, FALSE)

SpecSettings == InitSettings /\ [][NextSettings]_vars

\* ------------------------------------------------------------ the log store
LogLevels == {"info", "error"}

AddLog ==
  /\ logs.calls < MaxLogs
  /\ \E level \in LogLevels, storageOk \in BOOLEAN :
       SideStep(settings, addLog(logs, level, storageOk), proxy, groq)

ClearLogs ==
  /\ logs.buffer # <<>>
  /\ \E storageOk \in BOOLEAN : SideStep(settings, clearLogs(logs, storageOk), proxy, groq)

NextLogs == AddLog \/ ClearLogs

InitLogs ==
  /\ AppStart(EnvIdle)
  /\ settings = SettingsAt(DefaultAgents)
  /\ logs = LogsEmpty
  /\ proxy = ProxyIdle
  /\ groq = GroqIdle("")
  /\ web = WebIdle
  /\ title = TitleIdle(FALSE, FALSE)

SpecLogs == InitLogs /\ [][NextLogs]_vars

\* ------------------------------------------------- the generation proxy
ProxyStep(p) == SideStep(settings, logs, p, groq)

\* the upstream call or wait in flight rejects once the signal is aborted
ProxyAbortPending ==
  proxy.endpoint = "generateStream" /\ proxy.aborted /\ proxy.pc # "done"

ProxyAct(pc) == proxy.pc = pc /\ ~ProxyAbortPending

UpstreamResponds ==
  /\ ProxyAct("fetch")
  /\ \E status \in {200, 429, 500, 503}, header \in RetryAfterHeaders,
        jitter \in {0, JitterSpan - 1} :
       ProxyStep(AfterMake(proxy, status, header, jitter))

WaitElapses == ProxyAct("wait") /\ ProxyStep(AfterWait(proxy))

\* a chunk of the upstream body; only text is written to the client
BodyChunk ==
  /\ ProxyAct("body")
  /\ proxy.endpoint = "generateStream"
  /\ \E hasText \in BOOLEAN :
       ProxyStep([proxy EXCEPT !.wroteAnyChunk = @ \/ hasText])

\* the upstream body ends; the streaming handler clears its timer
BodyEnds ==
  /\ ProxyAct("body")
  /\ ProxyStep([EndResponse(proxy) EXCEPT
        !.idleTimer = IF proxy.endpoint = "generateStream" THEN "cleared" ELSE @])

\* Groq's [DONE] line: the handler ends the response and returns
DoneMarker ==
  /\ ProxyAct("body")
  /\ proxy.endpoint = "generateStream"
  /\ proxy.provider = "groq"
  /\ ProxyStep(EndResponse(proxy))

\* req.on('close', abortUpstream)
ClientCloses ==
  /\ proxy.endpoint = "generateStream"
  /\ ~proxy.aborted
  /\ ProxyStep([proxy EXCEPT !.aborted = TRUE])

\* the rejection reaches the handler's catch, which ends the response
ProxyAbortDeliver == ProxyAbortPending /\ ProxyStep(EndResponse(proxy))

IdleTimerFires ==
  /\ proxy.idleTimer = "armed"
  /\ ~ProxyAbortPending
  /\ ProxyStep(idleTimer(proxy))

NextProxy ==
  \/ UpstreamResponds
  \/ WaitElapses
  \/ BodyChunk
  \/ BodyEnds
  \/ DoneMarker
  \/ ClientCloses
  \/ ProxyAbortDeliver
  \/ IdleTimerFires

InitProxy ==
  /\ AppStart(EnvIdle)
  /\ settings = SettingsAt(DefaultAgents)
  /\ logs = LogsEmpty
  /\ \E endpoint \in {"generate", "generateStream"}, provider \in Providers,
        hasKey \in BOOLEAN : proxy = Accept(endpoint, provider, hasKey)
  /\ groq = GroqIdle("")
  /\ web = WebIdle
  /\ title = TitleIdle(FALSE, FALSE)

SpecProxy == InitProxy /\ [][NextProxy]_vars

\* ------------------------------------------------------- the model listing
RECURSIVE SeqsUpTo(_, _)
SeqsUpTo(S, n) ==
  IF n = 0 THEN {<<>>}
  ELSE LET shorter == SeqsUpTo(S, n - 1)
       IN shorter \cup {Append(q, x) : q \in shorter, x \in S}

GroqCall ==
  /\ groq.pc # "fetch"
  /\ \E apiKey \in {"", "k"} :
       SideStep(settings, logs, proxy, fetchGroqModels(groq, apiKey))

GroqFetchSettles ==
  /\ groq.pc = "fetch"
  /\ \E outcome \in {"ok", "non2xx", "rejects"} :
       \E items \in (IF outcome = "ok" THEN SeqsUpTo(0 .. MaxItems, MaxItems) ELSE {<<>>}) :
         SideStep(settings, logs, proxy, AfterGroqFetch(groq, outcome, items))

NextGroq == GroqCall \/ GroqFetchSettles

InitGroq ==
  /\ AppStart(EnvIdle)
  /\ settings = SettingsAt(DefaultAgents)
  /\ logs = LogsEmpty
  /\ proxy = ProxyIdle
  /\ \E storedKey \in {"", "k"} : groq = GroqIdle(storedKey)
  /\ web = WebIdle
  /\ title = TitleIdle(FALSE, FALSE)

SpecGroq == InitGroq /\ [][NextGroq]_vars

\* ------------------------------------------------------ the web sources
StoredValues ==
  {StoredAbsent, StoredText} \cup {StoredInt(n) : n \in 0 .. MaxResults} \cup {StoredInt(MaxSourcesCap + 2)}

WebStep(x) == web' = x /\ UNCHANGED <<mainVars, settings, logs, proxy, groq, title>>

\* the Tools settings store a source limit
StoreMaxSources ==
  \E v \in StoredValues : v # web.stored /\ WebStep([web EXCEPT !.stored = v])

\* the search answers 2xx with a list of results
SearchSucceeds ==
  \E results \in SeqsUpTo(0 .. 2, MaxResults) :
    WebStep([web EXCEPT !.results = results,
                        !.sources = KeptSources(results, getMaxWebSources(web.stored)),
                        !.searched = TRUE])

NextWeb == StoreMaxSources \/ SearchSucceeds

InitWeb ==
  /\ AppStart(EnvIdle)
  /\ settings = SettingsAt(DefaultAgents)
  /\ logs = LogsEmpty
  /\ proxy = ProxyIdle
  /\ groq = GroqIdle("")
  /\ web = WebIdle
  /\ title = TitleIdle(FALSE, FALSE)

SpecWeb == InitWeb /\ [][NextWeb]_vars

\* ------------------------------------------------------- the chat title
TitleStep(x) == title' = x /\ UNCHANGED <<mainVars, settings, logs, proxy, groq, web>>

\* a chunk of the streamed synthesis
TitleChunk ==
  /\ title.pc = "synth"
  /\ title.streamed
  /\ title.acc < MaxSynthChunks
  /\ TitleStep([title EXCEPT !.acc = title.acc + 1])

\* synthesis ends: the stream is over or generateText resolves
SynthesisEnds ==
  /\ title.pc = "synth"
  /\ \E t \in 0 .. MaxSynthChunks :
       /\ title.streamed => t = title.acc
       /\ TitleStep(AfterSynthesis(title, t))

\* synthesis throws (failure, timeout, cancellation): catch and finally
SynthesisThrows ==
  /\ title.pc = "synth"
  /\ TitleStep([title EXCEPT !.pc = "done"])

TitleCallSettles ==
  /\ title.pc = "title"
  /\ \E ok \in BOOLEAN, raw \in SeqsUpTo(0 .. 2, MaxWords) :
       /\ (~ok => raw = <<>>)
       /\ TitleStep(AfterTitleCall(title, ok, raw))

NextTitle == TitleChunk \/ SynthesisEnds \/ SynthesisThrows \/ TitleCallSettles

InitTitle ==
  /\ AppStart(EnvIdle)
  /\ settings = SettingsAt(DefaultAgents)
  /\ logs = LogsEmpty
  /\ proxy = ProxyIdle
  /\ groq = GroqIdle("")
  /\ web = WebIdle
  /\ \E isNewChat \in BOOLEAN, streamed \in BOOLEAN : title = TitleIdle(isNewChat, streamed)

SpecTitle == InitTitle /\ [][NextTitle]_vars

\* ================================================================ claims
\* the invocation is suspended at an await that has not been rejected
Active(r) == runs[r].pc \in AwaitCall \cup {"backoff"} /\ ~Rejected(r)

\* the signal the invocation captured at its start is aborted
Cancelled(r) == runs[r].sig # 0 /\ runs[r].sig \in gc.aborted

\* the step is a task of invocation r that leaves a new call in flight
StartsCall(r) ==
  /\ lastAct'.run = r
  /\ runs'[r].pc \in AwaitCall
  /\ <<runs'[r].pc, runs'[r].agent, runs'[r].attempt>>
       # <<runs[r].pc, runs[r].agent, runs[r].attempt>>
  /\ ~(runs'[r].callSig # 0 /\ runs'[r].callSig \in gc'.aborted)

\* C1: at most one generation run is active at any time: never are two
\* invocations of the orchestrator both still executing pipeline steps.
C1_AtMostOneActiveRun ==
  \A r1, r2 \in Runs : (Active(r1) /\ Active(r2)) => r1 = r2

\* C2: once a run is cancelled (Stop, or a newer run's start()), it starts
\* no further search, agent or synthesis call and appends no further message.
C2_CancelledRunStartsNothing ==
  [][\A r \in Runs :
       (Cancelled(r) /\ lastAct'.run = r)
         => (~StartsCall(r) /\ Len(msgs') <= Len(msgs))]_vars

\* C3: when start() is called while an earlier start()'s run is still the
\* stored one, that run's signal is aborted by the time the new token is
\* returned, and the new run's signal is not.
C3_SecondStartAbortsFirst ==
  (lastCall.op = "start" /\ lastCall.pre.runToken # 0)
    => /\ lastCall.pre.controller # 0
       /\ lastCall.pre.controller \in gc.aborted
       /\ gc.runToken # lastCall.pre.runToken
       /\ gc.controller \notin gc.aborted

C3_Witness ==
  /\ lastCall.op = "start"
  /\ lastCall.prev = "start"
  /\ lastCall.pre.runToken = 1
  /\ gc.runToken = 2
  /\ lastCall.pre.controller \in gc.aborted

\* C4: finish(A) with the token of a superseded run changes nothing:
\* isGenerating, the current run's signal and the current token stay as
\* they were, and nothing is emitted.
C4_StaleFinishNoOp ==
  (/\ lastCall.op = "finish"
   /\ lastCall.arg # 0
   /\ lastCall.pre.runToken # 0
   /\ lastCall.arg # lastCall.pre.runToken)
    => gc = lastCall.pre

C4_Witness ==
  /\ lastCall.op = "finish"
  /\ lastCall.arg = 1
  /\ gc.runToken = 2
  /\ gc.isGenerating
  /\ gc.controller # 0
  /\ gc.controller \notin gc.aborted

\* C5: stop() aborts the current signal, sets isGenerating false, emits
\* "stop" and keeps the run token; a finish(T) after it with that run's token
\* T matches: it emits "finish" and clears the controller and the token.
C5_StopKeepsToken ==
  /\ lastCall.op = "stop"
       => /\ ~gc.isGenerating
          /\ gc.runToken = lastCall.pre.runToken
          /\ gc.controller = lastCall.pre.controller
          /\ (lastCall.pre.controller # 0 => lastCall.pre.controller \in gc.aborted)
          /\ gc.lastEmit = "stop"
  /\ (/\ lastCall.op = "finish"
      /\ lastCall.prev = "stop"
      /\ lastCall.arg # 0
      /\ lastCall.arg = lastCall.pre.runToken)
       => /\ gc.lastEmit = "finish"
          /\ gc.controller = 0
          /\ gc.runToken = 0
          /\ ~gc.isGenerating

C5_Witness ==
  /\ lastCall.op = "finish"
  /\ lastCall.prev = "stop"
  /\ lastCall.arg # 0
  /\ lastCall.arg = lastCall.pre.runToken
  /\ lastCall.pre.controller \in lastCall.pre.aborted
  /\ gc.lastEmit = "finish"
  /\ gc.runToken = 0

\* C6: a run that ends without having been cancelled has added a final
\* answer or a labelled failure message to the chat: no run ends silently.
C6_EndedRunSpoke ==
  [][\A r \in Runs :
       (/\ runs[r].pc \notin {"idle", "done", "stale"}
        /\ runs'[r].pc = "done"
        /\ runs[r].sig \notin gc'.aborted)
         => \E k \in 1 .. Len(msgs') :
              msgs'[k].role = "model" /\ msgs'[k].id[1] = r]_vars

\* C7: a cancelled run appends no error message and leaves the live
\* workspace (the per-agent statuses and responses) as it was.
C7_CancelledRunKeepsWorkspace ==
  [][\A r \in Runs :
       (Cancelled(r) /\ lastAct'.run = r)
         => /\ ui'.collab = ui.collab
            /\ \A k \in 1 .. Len(msgs') :
                 (msgs'[k].kind \in {"error", "searchError"} /\ msgs'[k].id[1] = r)
                   => (k <= Len(msgs) /\ msgs[k] = msgs'[k])]_vars

\* C8: when the step timer of an agent's initial call fires in a run that
\* is not cancelled, that agent's initial response is recorded as '', the
\* other agents' initial responses stay as they are, and the run goes on:
\* to the next agent, or past the last agent into the refinement phase.
C8_StepTimeoutIsolated ==
  [][\A r \in Runs :
       (/\ lastAct'.timeout
        /\ lastAct'.run = r
        /\ runs[r].pc = "init"
        /\ ~Cancelled(r))
         => LET i == runs[r].agent
            IN  /\ runs'[r].pc \in {"init", "refine"}
                /\ runs'[r].initR[i] = 0
                /\ \A j \in Agents \ {i} : runs'[r].initR[j] = runs[r].initR[j]
                /\ (i < env.agentCount
                      => runs'[r].pc = "init" /\ runs'[r].agent = i + 1)
                /\ (i = env.agentCount
                      => runs'[r].pc = "refine" /\ runs'[r].agent = 1)]_vars

C8_Witness ==
  /\ lastAct.timeout
  /\ env.agentCount >= 2
  /\ \E r \in Runs :
       /\ lastAct.run = r
       /\ runs[r].pc = "refine"
       /\ runs[r].agent = 1
       /\ runs[r].initR[env.agentCount] = 0
       /\ runs[r].initR[1] > 0

\* C9: after one prompt is sent and Stop is clicked, once the run has
\* returned the loading message is empty and the live collaboration state
\* is empty (neither element is rendered).
C9_StopSettlesClean ==
  (/\ lastUser = "stop"
   /\ gc.nextTok = 2
   /\ \A r \in Runs : runs[r].pc \in {"idle", "done"})
    => (ui.loadingMessage = "" /\ ui.collab = <<>>)

\* C10: whenever a run is active (started, not returned, not cancelled) the
\* UI is loading: the input is disabled and the Stop control is shown.
C10_ActiveRunIsLoading ==
  (\E r \in Runs : runs[r].pc \notin {"idle", "done", "stale"} /\ ~Cancelled(r))
    => ui.isLoading

\* C11: when the web search fails for a reason other than cancellation (a
\* 5xx on the last attempt included), a model-role message about the search
\* failure is appended, the loading state is reset, the run returns, and it
\* never issues an agent or synthesis call (a returned run stays returned).
C11_SearchFailureEndsRun ==
  [][\A r \in Runs :
       /\ (/\ lastAct'.run = r
           /\ lastAct'.status \in SearchOutcomes \ {"ok"}
           /\ ~(lastAct'.status = "5xx" /\ runs[r].attempt < SearchAttempts)
           /\ ~Cancelled(r))
            => /\ msgs' = Append(msgs, [id |-> <<r, "searchError">>, role |-> "model",
                                        kind |-> "searchError", text |-> 1,
                                        traced |-> FALSE, srcs |-> 0])
               /\ ~ui'.isLoading
               /\ ui'.loadingMessage = ""
               /\ ui'.progressDone = 0
               /\ ui'.progressTotal = 0
               /\ ui'.collab = <<>>
               /\ runs'[r].pc = "done"
       /\ runs[r].pc = "done" => runs'[r].pc = "done"]_vars

C11_Witness ==
  /\ lastAct.status = "5xx"
  /\ \E r \in Runs : lastAct.run = r /\ runs[r].pc = "done"
  /\ Len(msgs) = 2
  /\ msgs[2].kind = "searchError"
  /\ ~ui.isLoading

\* C12: the search is attempted at most 3 times; a further attempt follows
\* only a 5xx and only a wait of 300 ms times the attempt number; any other
\* outcome is returned at once; a success keeps the attempt's results and
\* goes on to the agents (503, 503, 200: third attempt, 900 ms waited).
C12_SearchRetry ==
  [][\A r \in Runs :
       /\ runs'[r].attempt <= SearchAttempts
       /\ (runs[r].pc = "search" /\ runs'[r].pc = "backoff")
            => (lastAct'.status = "5xx" /\ runs[r].attempt < SearchAttempts)
       /\ (runs[r].pc # "search" /\ runs'[r].pc = "search")
            => \/ /\ runs[r].pc = "idle"
                  /\ runs'[r].attempt = 1
                  /\ runs'[r].waited = 0
               \/ /\ runs[r].pc = "backoff"
                  /\ runs'[r].attempt = runs[r].attempt + 1
                  /\ runs'[r].waited = runs[r].waited + BackoffMs * runs[r].attempt
       /\ (lastAct'.run = r /\ lastAct'.status \in SearchOutcomes \ {"5xx"})
            => runs'[r].pc \notin {"search", "backoff"}
       /\ (lastAct'.run = r /\ lastAct'.status = "ok")
            => /\ runs'[r].pc \in {"init", "s_init"}
               /\ runs'[r].attempt = runs[r].attempt
               /\ runs'[r].waited = runs[r].waited]_vars

C12_Witness ==
  /\ lastAct.status = "ok"
  /\ \E r \in Runs :
       /\ lastAct.run = r
       /\ runs[r].pc \in {"init", "s_init"}
       /\ runs[r].attempt = SearchAttempts
       /\ runs[r].waited = BackoffMs + BackoffMs + BackoffMs
       /\ runs[r].srcs = 1

\* C13: whatever settings operations were performed, the agent-indexed arrays
\* the program keeps (the root component's instructions and names, the stored
\* per-agent providers and models once written) have as many entries as the
\* current agent count.
C13_ArraysMatchAgentCount ==
  /\ Len(settings.agentInstructions) = settings.agentCount
  /\ Len(settings.agentNames) = settings.agentCount
  /\ settings.lsProviderPerAgent # <<>> =>
       Len(settings.lsProviderPerAgent) = settings.agentCount
  /\ settings.lsModelPerAgent # <<>> =>
       Len(settings.lsModelPerAgent) = settings.agentCount

C15_SnapshotIsRecent ==
  LET n == logs.calls - logs.base
  IN n >= 1 =>
       /\ Len(getLogs(logs)) = n
       /\ \A i \in 1 .. n : getLogs(logs)[i].ts = logs.base + i
       /\ Len(logs.snapshot) = (IF n <= SnapshotCap THEN n ELSE SnapshotCap)
       /\ \A i \in 1 .. Len(logs.snapshot) :
            logs.snapshot[i] = getLogs(logs)[n - Len(logs.snapshot) + i]

\* C15, amended: getLogs() returns all n entries in insertion order; the
\* stored snapshot holds exactly the most recent min(n, cap) of them when the
\* write of the latest addLog succeeded, and is left as it was when it failed.
C15_SnapshotIsRecentWhenStored ==
  [][LET n == logs'.calls - logs'.base
     IN logs'.calls = logs.calls + 1 =>
          /\ Len(getLogs(logs')) = n
          /\ \A i \in 1 .. n : getLogs(logs')[i].ts = logs'.base + i
          /\ logs'.stored =>
               /\ Len(logs'.snapshot) = (IF n <= SnapshotCap THEN n ELSE SnapshotCap)
               /\ \A i \in 1 .. Len(logs'.snapshot) :
                    logs'.snapshot[i] = getLogs(logs')[n - Len(logs'.snapshot) + i]
          /\ ~logs'.stored => logs'.snapshot = logs.snapshot]_vars

\* more entries were logged than the snapshot keeps, and the last write succeeded
C15_Witness ==
  /\ logs.stored
  /\ logs.base = 0
  /\ Len(logs.buffer) > SnapshotCap
  /\ Len(logs.snapshot) = SnapshotCap
  /\ logs.snapshot[1] = logs.buffer[Len(logs.buffer) - SnapshotCap + 1]
  /\ logs.snapshot[1].ts > 1

\* C16: one request calls the upstream at most 3 times, calls it again only
\* after a 429 or 503 and a wait, and that wait is the Retry-After delay when
\* the response gives one, else min(2000, 300 * 2^(attempt-1)) ms plus a
\* jitter below 200 ms.
C16_RetryPolicy ==
  [][/\ proxy'.calls <= 3
     /\ proxy'.calls > proxy.calls =>
          /\ proxy.pc = "wait"
          /\ proxy.status \in {429, 503}
          /\ proxy.waitMs =
               (CASE proxy.header.kind = "seconds" -> proxy.header.v * 1000
                  [] proxy.header.kind = "date" ->
                       IF proxy.header.v > 0 THEN proxy.header.v ELSE 0
                  [] OTHER ->
                       Min(2000, 300 * 2 ^ (proxy.attempt - 1)) + proxy.jitter)
          /\ proxy.jitter \in 0 .. 199]_vars

\* C17: when the watchdog of a streaming request fires and no text has been
\* written, the upstream request is aborted and the response is ended; the
\* watchdog stays armed as long as the response is open and nothing is written.
C17_IdleWatchdog ==
  [][/\ (proxy.idleTimer = "armed" /\ proxy'.idleTimer = "fired"
         /\ ~proxy.wroteAnyChunk) => proxy'.aborted /\ proxy'.ended
     /\ (proxy'.endpoint = "generateStream" /\ ~proxy'.ended
         /\ ~proxy'.wroteAnyChunk) => proxy'.idleTimer = "armed"]_vars

\* the watchdog fired on a request whose upstream call had not answered
C17_Witness ==
  /\ proxy.endpoint = "generateStream"
  /\ proxy.idleTimer = "fired"
  /\ proxy.pc = "fetch"
  /\ ~proxy.wroteAnyChunk
  /\ proxy.aborted
  /\ proxy.ended

\* C18: a call of fetchGroqModels that has no key, or whose request fails by
\* a non-2xx status or by a transport failure, returns the empty list and
\* does not throw.
C18_GroqFailureIsEmpty ==
  (groq.pc \in {"returned", "threw"}
   /\ (groq.key = "" \/ groq.outcome \in {"non2xx", "rejects"}))
  => (groq.pc = "returned" /\ groq.result = <<>>)

\* C19: when a superseded run (one whose token is no longer the current one
\* because a newer run has started) cleans up and returns, the newer run's
\* state stays as it is: the controller's isGenerating, controller and token,
\* the loading flag, the progress counters and the run-start timestamp.
C19_StaleCleanupKeepsNewerState ==
  [][\A r \in Runs :
       (/\ lastAct'.run = r
        /\ Superseded(r)
        /\ runs[r].pc \notin {"idle", "done"}
        /\ runs'[r].pc = "done")
       => /\ gc'.isGenerating = gc.isGenerating
          /\ gc'.controller = gc.controller
          /\ gc'.runToken = gc.runToken
          /\ ui'.isLoading = ui.isLoading
          /\ ui'.progressDone = ui.progressDone
          /\ ui'.progressTotal = ui.progressTotal
          /\ ui'.runStartTs = ui.runStartTs]_vars

\* C20: when a step timer fires in a run that is not cancelled, in the
\* initial, the refinement or the synthesis phase, the run's own signal stays
\* un-aborted and the run is not ended as an aborted one: it goes on to its
\* next step, or it returns with its final answer in the chat.
C20_StepTimeoutNeverCancels ==
  [][\A r \in Runs :
       (/\ lastAct'.timeout
        /\ lastAct'.run = r
        /\ ~Cancelled(r))
       => /\ runs[r].sig \notin gc'.aborted
          /\ \/ runs'[r].pc \in AwaitCall
             \/ /\ runs'[r].pc = "done"
                /\ \E k \in 1 .. Len(msgs') : msgs'[k].id = <<r, "final">>]_vars

\* the place of a call in the order of a run's calls: the search, the initial
\* calls of agents 1..N, their refinement calls, the synthesis
CallRank(q) ==
  CASE q.pc \in {"search", "backoff"} -> 0
    [] q.pc \in {"init", "s_init"}    -> q.agent
    [] q.pc = "refine"                -> env.agentCount + q.agent
    [] q.pc = "s_crit"                -> 2
    [] q.pc = "synth"                 -> env.agentCount + env.agentCount + 1
    [] OTHER                          -> 0

\* C21: within a run a call is issued only by the task that handles the end
\* (answer, failure or timeout) of the run's previous call, and it is the next
\* call in the order search, initial 1..N, refinement 1..N, synthesis; the
\* synthesis call follows the end of the last agent's refinement call.
C21_CallsInOrder ==
  [][\A r \in Runs :
       (/\ runs'[r].pc \in AwaitCall
        /\ runs[r].pc \notin {"done", "stale"}
        /\ <<runs'[r].pc, runs'[r].agent, runs'[r].attempt>>
             # <<runs[r].pc, runs[r].agent, runs[r].attempt>>)
       => /\ lastAct'.run = r
          /\ runs'[r].pc = "search" =>
               \/ runs[r].pc = "idle" /\ runs'[r].attempt = 1
               \/ runs[r].pc = "backoff" /\ runs'[r].attempt = runs[r].attempt + 1
          /\ runs'[r].pc # "search" =>
               /\ runs[r].pc \in {"idle", "search"} =>
                    CallRank(runs'[r]) = 1 /\ runs'[r].pc \in {"init", "s_init"}
               /\ runs[r].pc \notin {"idle", "search"} =>
                    /\ runs[r].pc \in AwaitCall
                    /\ CallRank(runs'[r]) = CallRank(runs[r]) + 1
          /\ runs'[r].pc = "synth" =>
               runs[r].pc = "refine" /\ runs[r].agent = env.agentCount]_vars

\* a run of two or more agents has reached its synthesis call
C21_Witness ==
  /\ env.agentCount >= 2
  /\ \E r \in Runs :
       /\ runs[r].pc = "synth"
       /\ lastAct.run = r
       /\ Len(runs[r].refR) >= env.agentCount

\* C22: for every agent count, when an agent's generation call (initial or
\* refinement; with one agent the initial or the self-critique call) fails in
\* a run that is not cancelled, the failure is absorbed at the call: the
\* agent's response is recorded as '', no message is added to the chat and the
\* run goes on to its next call.
C22_AgentFailureDegrades ==
  [][\A r \in Runs :
       (/\ lastAct'.run = r
        /\ lastAct'.status = "callfail"
        /\ runs[r].pc \in {"init", "refine", "s_init", "s_crit"}
        /\ ~Cancelled(r))
       => /\ msgs' = msgs
          /\ runs'[r].pc \in AwaitCall
          /\ CallRank(runs'[r]) = CallRank(runs[r]) + 1
          /\ runs[r].pc \in {"init", "s_init"} => runs'[r].initR[runs[r].agent] = 0
          /\ runs[r].pc \in {"refine", "s_crit"} => runs'[r].refR[runs[r].agent] = 0]_vars

\* C23: when a run ends, the live collaboration state and the loading message
\* are cleared if the run was not cancelled, and are not cleared if it was
\* cancelled (a collaboration state or loading message on display stays on
\* display).
C23_EndClearsUnlessCancelled ==
  [][\A r \in Runs :
       (/\ lastAct'.run = r
        /\ runs[r].pc \notin {"idle", "done", "stale"}
        /\ runs'[r].pc = "done")
       => IF Cancelled(r)
          THEN /\ ui.collab # <<>> => ui'.collab # <<>>
               /\ ui.loadingMessage # "" => ui'.loadingMessage # ""
          ELSE ui'.collab = <<>> /\ ui'.loadingMessage = ""]_vars

\* C24: every run that starts emits the "Processing done" notice and the
\* run-finished log line in the task in which it ends, however it ends (normal
\* completion, web-search failure, pipeline error or cancellation).
C24_EveryEndNotifies ==
  [][\A r \in Runs :
       (/\ lastAct'.run = r
        /\ runs[r].pc \notin {"idle", "done", "stale"}
        /\ runs'[r].pc = "done")
       => lastAct'.notice]_vars

\* C25: in every controller state, also when the controller holds no token
\* (the current run was already finished), finish(t) with a supplied token t
\* that is not the controller's current token changes nothing: isGenerating,
\* the cancellation source and the token stay as they were and nothing is
\* emitted.
C25_ForeignFinishNoOp ==
  (/\ lastCall.op = "finish"
   /\ lastCall.arg # 0
   /\ lastCall.arg # lastCall.pre.runToken)
    => gc = lastCall.pre

\* the positions of the final-answer messages of run r in a message list
FinalsOf(messages, r) == {k \in 1 .. Len(messages) : messages[k].id = <<r, "final">>}

\* C26: when synthesis is streamed, the model message created at the first
\* chunk is rewritten to the accumulated text on each later chunk, and once the
\* stream ends that same message is the one that gets the collaboration trace
\* and the sources; no second final-answer message is appended for the run.
C26_StreamedAnswerIsOneMessage ==
  [][\A r \in Runs :
       (lastAct'.run = r /\ runs[r].pc = "synth" /\ env.streaming /\ runs[r].finalId)
       => /\ Cardinality(FinalsOf(msgs, r)) <= 1
          /\ FinalsOf(msgs', r) = FinalsOf(msgs, r)
          /\ (runs'[r].pc = "synth" /\ runs'[r].acc = runs[r].acc + 1)
               => msgs' = [k \in 1 .. Len(msgs) |->
                            IF k \in FinalsOf(msgs, r)
                            THEN [msgs[k] EXCEPT !.text = runs'[r].acc] ELSE msgs[k]]
          /\ lastAct'.status = "end"
               => msgs' = [k \in 1 .. Len(msgs) |->
                            IF k \in FinalsOf(msgs, r)
                            THEN [msgs[k] EXCEPT !.traced = TRUE, !.srcs = runs[r].srcs]
                            ELSE msgs[k]]]_vars

C26_Witness ==
  /\ env.streaming
  /\ \E r \in Runs :
       /\ runs[r].pc = "done"
       /\ lastAct.run = r
       /\ lastAct.status = "end"
       /\ Cardinality(FinalsOf(msgs, r)) = 1
       /\ \A k \in FinalsOf(msgs, r) : msgs[k].text = MaxSynthChunks /\ msgs[k].traced

\* C27: the sources kept from a successful search are the results with
\* non-empty content, in their original order, truncated to the configured
\* maximum: exactly min(maximum, number of non-empty results) of them.
C27_SourcesAreFirstNonEmpty ==
  web.searched =>
    LET kept == SelectSeq(web.results, HasContent)
        maxSources == getMaxWebSources(web.stored)
    IN  /\ Len(web.sources) = Min(maxSources, Len(kept))
        /\ web.sources = SubSeq(kept, 1, Min(maxSources, Len(kept)))

\* C28: the title call is issued, and the title changed, only for a run with
\* isNewChat whose final text is not empty; a run without final text
\* (cancelled, failed, or an empty synthesis) issues no title call and keeps
\* the title "New Chat".
C28_TitleOnlyForNonEmptyAnswer ==
  (title.calls > 0 \/ title.title # NewChatTitle)
    => (title.isNewChat /\ title.answered /\ title.finalText > 0)

\* C29: in every state of the GenerationController reachable by start(),
\* stop(), finish(token?) and reads of signal, isGenerating true implies that
\* a current run token exists and that the current signal is not aborted.
C29_GeneratingHasLiveRun ==
  gc.isGenerating =>
    /\ gc.runToken # 0
    /\ gc.controller # 0
    /\ signalOf(gc) \notin gc.aborted

C29_Witness ==
  /\ gc.isGenerating
  /\ gc.runToken = MaxRuns
  /\ lastCall.op = "start"
  /\ lastCall.prev = "stop"
  /\ lastCall.pre.controller \in gc.aborted

\* C30: at every point of every execution, also while a stopped or superseded
\* run is still unwinding and a newer run progresses, progressDone does not
\* exceed progressTotal.
C30_ProgressWithinTotal == ui.progressDone <= ui.progressTotal

====
